---- MODULE Spec2Model ----
(***************************************************************************)
(* Model of the BioAge PDF ingestion and query scripts:                    *)
(*   ingest_pdf_simple.py        delegated vectorize ($vectorize)          *)
(*   ingest_pdf_to_astra_v2.py   local embeddings, astrapy client          *)
(*   ingest_pdf_to_astra.py      OpenAI embeddings, LangChain AstraDB      *)
(*   ingest_pdf_to_astra_hf.py   HuggingFace embeddings, LangChain AstraDB *)
(*   query_astra.py              similarity query and list-collections     *)
(*   test_connection.py          connection test                           *)
(* Strings are sequences of one-character strings, so that formatting,     *)
(* str.replace and str.strip are computed and not assumed.                 *)
(***************************************************************************)
EXTENDS Integers, Sequences, FiniteSets, TLC

----------------------------------------------------------------------------
(* Bounds of the model *)

\* longest chunk list handed to ingest_to_astra
MaxChunks == 45

\* number of times the same ingestion is run against the same store
MaxRuns == 2

\* number of pages of the PDF handed to main
MaxPages == 1

\* number of results the store returns to a query
MaxResults == 2

\* longest text handed to chunk_text on its own
MaxTextLen == 5

\* largest chunk_size chunk_text is called with on those texts
MaxChunkSize == 3

\* most chunks of a document when several documents share a collection
MaxDocChunks == 2

(* Program constants *)

\* batch_size = 20
batch_size == 20

\* query_astra shows the first 500 characters of a result's text
PreviewLen == 500

----------------------------------------------------------------------------
VARIABLES
    env,           \* the credentials read from the environment at import
    results,       \* query_astra's results, as the store returned them
    script,        \* the script that is running
    caller,        \* "main" when main called ingest_to_astra, else "direct"
    pc,            \* position in the running script
    args,          \* main's --chunk-size and --chunk-overlap
    text,          \* main's extracted text
    calls,         \* the functions of the script called so far, in order
    pdf_filename,  \* ingest_to_astra's pdf_filename
    chunks,        \* ingest_to_astra's chunks
    documents,     \* ingest_to_astra's documents list
    i,             \* the batching loop's index
    remote,        \* the client constructions, remote calls and delays, in order
    store,         \* the _ids held by the collection in the remote store
    next_uuid,     \* how many identifiers the LangChain store has made up
    console,       \* what the run printed about its batches and its end
    outcome,       \* how the called function ended: "none", "returned", "raised"
    exc,           \* the exception it raised, "none" when none
    run,           \* which run of the same ingestion this is
    history        \* what the earlier runs submitted and left in the store

vars == <<env, results, script, caller, pc, args, text, calls, pdf_filename, chunks,
          documents, i, remote, store, next_uuid, console, outcome, exc, run,
          history>>

----------------------------------------------------------------------------
(* Strings *)

Min(a, b) == IF a < b THEN a ELSE b

Digits == <<"0", "1", "2", "3", "4", "5", "6", "7", "8", "9">>

\* str(n) / f"{n}" for an integer n >= 0: its decimal digits
RECURSIVE Str(_)
Str(n) == IF n < 10 THEN <<Digits[n + 1]>>
          ELSE Str(n \div 10) \o <<Digits[(n % 10) + 1]>>

\* s.replace(old, new) for a non-empty old: every non-overlapping occurrence,
\* scanning left to right
RECURSIVE Replace(_, _, _)
Replace(s, old, new) ==
    IF Len(s) < Len(old) THEN s
    ELSE IF SubSeq(s, 1, Len(old)) = old
         THEN new \o Replace(SubSeq(s, Len(old) + 1, Len(s)), old, new)
         ELSE <<s[1]>> \o Replace(Tail(s), old, new)

\* seq[lo:hi] of Python, lo and hi 0-based, hi exclusive, clipped to the length
Slice(seq, lo, hi) == SubSeq(seq, lo + 1, Min(hi, Len(seq)))

\* the characters str.strip() removes, among those the texts are made of
Whitespace == {" ", "\n"}

RECURSIVE LStrip(_)
LStrip(s) == IF s # <<>> /\ Head(s) \in Whitespace THEN LStrip(Tail(s)) ELSE s

RECURSIVE RStrip(_)
RStrip(s) == IF s # <<>> /\ s[Len(s)] \in Whitespace
             THEN RStrip(SubSeq(s, 1, Len(s) - 1)) ELSE s

\* s.strip()
Strip(s) == RStrip(LStrip(s))

\* "".join(parts)
RECURSIVE Join(_)
Join(parts) == IF parts = <<>> THEN <<>> ELSE Head(parts) \o Join(Tail(parts))

\* the 1-based position of the first occurrence of sep in s, 0 when absent
RECURSIVE Find(_, _)
Find(s, sep) ==
    IF Len(s) < Len(sep) THEN 0
    ELSE IF SubSeq(s, 1, Len(sep)) = sep THEN 1
    ELSE LET r == Find(Tail(s), sep) IN IF r = 0 THEN 0 ELSE r + 1

DotPdf == <<".", "p", "d", "f">>

\* os.getenv(...) is None when the variable is unset, "" when it is set empty
CredValues == {"unset", "empty", "set"}

\* `not X` of Python for a credential
Falsy(v) == v \in {"unset", "empty"}

\* the file names the scripts are run on (os.path.basename(args.pdf_path))
Filenames == { <<"a">> \o DotPdf, <<"a">>, <<"b">> \o DotPdf }

\* the page texts extract_text() returns
PageTexts == { <<>>, <<" ">>, <<"a", "b">>, <<"a", "b", " ", "c">> }

\* the PDFs main is run on: up to MaxPages pages
Pdfs == UNION { [1..n -> PageTexts] : n \in 0..MaxPages }

\* the --chunk-size and --chunk-overlap main is run with
ChunkArgs == { [chunk_size |-> 3, chunk_overlap |-> 1],
               [chunk_size |-> 2, chunk_overlap |-> 0] }

\* the chunk lists handed to ingest_to_astra directly: n chunks of text
ChunkList(n) == [k \in 1..n |-> <<"x">>]

----------------------------------------------------------------------------
(* Records *)

\* the _id numbered within the batch instead of within the document
SimpleIdWithinBatch(f, index) ==
    Replace(f, DotPdf, <<>>) \o <<"_">> \o Str(index % batch_size)

\* the _id made from a value of the run (a timestamp, a counter) and the index
SimpleIdOfRun(f, index) ==
    Replace(f, DotPdf, <<>>) \o <<"_">> \o Str(run) \o <<"_">> \o Str(index)

\* "_id": f"{pdf_filename.replace('.pdf', '')}_{i}"
SimpleId(f, index) == Replace(f, DotPdf, <<>>) \o <<"_">> \o Str(index)

\* "_id": f"{pdf_filename}_chunk_{i}"
V2Id(f, index) == f \o <<"_", "c", "h", "u", "n", "k", "_">> \o Str(index)

\* the documents list built by ingest_pdf_simple.ingest_to_astra
SimpleDocuments(cs, f) ==
    [k \in 1..Len(cs) |->
        [_id |-> SimpleId(f, k - 1), source |-> f, chunk_id |-> k - 1,
         total_chunks |-> Len(cs), vectorize |-> cs[k]]]

\* the documents list built by ingest_pdf_to_astra_v2.ingest_to_astra; the
\* embedding is a function of the chunk text
V2Documents(cs, f) ==
    [k \in 1..Len(cs) |->
        [_id |-> V2Id(f, k - 1), text |-> cs[k], vector |-> <<"emb", cs[k]>>,
         source |-> f, chunk_id |-> k - 1, total_chunks |-> Len(cs)]]

\* total_batches = (len(documents) - 1) // batch_size + 1
TotalBatches(n) == (n - 1) \div batch_size + 1

\* the documents list built by the LangChain variants (OpenAI, HuggingFace):
\* page_content and metadata, no "_id"
LcDocuments(cs, f) ==
    [k \in 1..Len(cs) |->
        [page_content |-> cs[k], source |-> f, chunk_id |-> k - 1,
         total_chunks |-> Len(cs)]]

\* the k-th identifier the LangChain store makes up for a text added without
\* ids (uuid4().hex): fresh at every call, never of the form name_index
Uuid(k) == <<"u", "u", "i", "d", "-">> \o Str(k)

Ids(docs) == { docs[k]._id : k \in 1..Len(docs) }

----------------------------------------------------------------------------
(* Text extraction and chunking *)

\* text += page_text + "\n\n" for every page
RECURSIVE ExtractText(_)
ExtractText(pages) ==
    IF pages = <<>> THEN <<>>
    ELSE Head(pages) \o <<"\n", "\n">> \o ExtractText(Tail(pages))

\* the separator list without its last entry "": ["\n\n", "\n", " "]
SeparatorsWithoutCharacters == << <<"\n", "\n">>, <<"\n">>, <<" ">> >>

\* separators=["\n\n", "\n", " ", ""]
Separators == << <<"\n", "\n">>, <<"\n">>, <<" ">>, <<>> >>

\* the pieces of text between the occurrences of a non-empty separator
RECURSIVE Pieces(_, _)
Pieces(txt, sep) ==
    LET at == Find(txt, sep) IN
    IF at = 0 THEN <<txt>>
    ELSE <<SubSeq(txt, 1, at - 1)>>
         \o Pieces(SubSeq(txt, at + Len(sep), Len(txt)), sep)

\* the splitter's split on one separator: the separator is kept at the start
\* of the piece that follows it, the empty separator splits into characters,
\* and empty pieces are dropped
SplitWithSeparator(txt, sep) ==
    LET raw == IF sep = <<>> THEN [k \in 1..Len(txt) |-> <<txt[k]>>]
               ELSE LET ps == Pieces(txt, sep) IN
                    [k \in 1..Len(ps) |-> IF k = 1 THEN ps[1] ELSE sep \o ps[k]]
    IN SelectSeq(raw, LAMBDA x : x # <<>>)

\* the splitter drops splits from the front of the current chunk until what
\* is left is within the overlap and leaves room for the next split
RECURSIVE DropForOverlap(_, _, _, _)
DropForOverlap(cur, len, size, overlap) ==
    LET total == Len(Join(cur)) IN
    IF total > overlap \/ (total + len > size /\ total > 0)
    THEN DropForOverlap(Tail(cur), len, size, overlap)
    ELSE cur

\* the splitter merges small splits into chunks of at most size characters,
\* each stripped, none empty, carrying the overlap into the next chunk
RECURSIVE MergeFrom(_, _, _, _, _, _)
MergeFrom(splits, k, docs, cur, size, overlap) ==
    IF k > Len(splits)
    THEN LET doc == Strip(Join(cur)) IN
         IF doc = <<>> THEN docs ELSE Append(docs, doc)
    ELSE LET d == splits[k]
             flush == Len(Join(cur)) + Len(d) > size /\ cur # <<>>
             doc == Strip(Join(cur))
             docs2 == IF flush /\ doc # <<>> THEN Append(docs, doc) ELSE docs
             cur2 == IF flush THEN DropForOverlap(cur, Len(d), size, overlap) ELSE cur
         IN MergeFrom(splits, k + 1, docs2, Append(cur2, d), size, overlap)

MergeSplits(splits, size, overlap) == MergeFrom(splits, 1, <<>>, <<>>, size, overlap)

\* the first separator of the list that is "" or occurs in the text
ChosenSeparator(txt, seps) ==
    LET hits == { k \in 1..Len(seps) : seps[k] = <<>> \/ Find(txt, seps[k]) > 0 } IN
    IF hits = {} THEN 0 ELSE CHOOSE k \in hits : \A j \in hits : k <= j

RECURSIVE SplitText(_, _, _, _)
RECURSIVE SplitEach(_, _, _, _, _, _, _)

\* splits shorter than size are collected and merged; a longer one is split
\* again on the separators that remain, or kept whole when none remains
SplitEach(splits, k, good, final, new_seps, size, overlap) ==
    IF k > Len(splits)
    THEN IF good # <<>> THEN final \o MergeSplits(good, size, overlap) ELSE final
    ELSE LET s == splits[k] IN
         IF Len(s) < size
         THEN SplitEach(splits, k + 1, Append(good, s), final, new_seps, size, overlap)
         ELSE LET flushed == IF good # <<>> THEN final \o MergeSplits(good, size, overlap)
                             ELSE final
                  more == IF new_seps = <<>> THEN <<s>>
                          ELSE SplitText(s, new_seps, size, overlap)
              IN SplitEach(splits, k + 1, <<>>, flushed \o more, new_seps, size, overlap)

SplitText(txt, seps, size, overlap) ==
    LET at == ChosenSeparator(txt, seps)
        sep == IF at = 0 THEN seps[Len(seps)] ELSE seps[at]
        new_seps == IF at = 0 \/ sep = <<>> THEN <<>>
                    ELSE SubSeq(seps, at + 1, Len(seps))
    IN SplitEach(SplitWithSeparator(txt, sep), 1, <<>>, <<>>, new_seps, size, overlap)

\* chunk_text(text, chunk_size, chunk_overlap): RecursiveCharacterTextSplitter
\* (chunk_size, chunk_overlap, length_function=len, separators).split_text(text)
ChunkText(txt, chunk_size, chunk_overlap) ==
    SplitText(txt, Separators, chunk_size, chunk_overlap)

----------------------------------------------------------------------------
(* The log of calls *)

\* an entry of the log of client constructions and remote calls
Call(op) == [op |-> op, batch |-> <<>>, ok |-> TRUE]

\* a remote call that raised
FailedCall(op) == [op |-> op, batch |-> <<>>, ok |-> FALSE]

InsertCall(batch, ok) == [op |-> "insert_many", batch |-> batch, ok |-> ok]

\* the insert_many calls made so far, in order
InsertCalls == SelectSeq(remote, LAMBDA c : c.op = "insert_many")

\* the _ids submitted to the store so far in this run
Submitted == UNION { Ids(remote[k].batch) : k \in 1..Len(remote) }

\* the number of batches whose insert_many raised in this run
Failed == Len(SelectSeq(remote, LAMBDA c : c.op = "insert_many" /\ ~c.ok))

\* the entries of the log that are calls to the remote store; the others
\* (DataAPIClient, get_database, get_database_by_api_endpoint) build clients
RemoteOps == {"get_collection", "create_collection", "insert_many", "find",
              "list_collection_names", "AstraDB", "add_texts"}

\* the remote calls attempted so far, in order
RemoteCalls == SelectSeq(remote, LAMBDA c : c.op \in RemoteOps)

\* the scripts that batch their inserts themselves
BatchScripts == {"simple", "v2"}

\* the scripts that hand the texts to the LangChain AstraDB store
LcScripts == {"openai", "hf"}

IngestScripts == BatchScripts \cup LcScripts

NoArgs == [chunk_size |-> 0, chunk_overlap |-> 0]

Init ==
    /\ env \in [API_ENDPOINT : CredValues, APPLICATION_TOKEN : CredValues,
                OPENAI_API_KEY : {"unset", "set"}]
    /\ script = "none"
    /\ caller = "none"
    /\ pc = "idle"
    /\ args = NoArgs
    /\ text = <<>>
    /\ calls = <<>>
    /\ pdf_filename = <<>>
    /\ chunks = <<>>
    /\ documents = <<>>
    /\ i = 0
    /\ remote = <<>>
    /\ store = {}
    /\ next_uuid = 0
    /\ console = <<>>
    /\ outcome = "none"
    /\ exc = "none"
    /\ run = 1
    /\ history = <<>>
    /\ results = <<>>

----------------------------------------------------------------------------
(* main of the four ingestion scripts *)

\* main: the PDF exists; text = extract_text_from_pdf(args.pdf_path)
RunMain ==
    /\ pc = "idle"
    /\ \E s \in IngestScripts, f \in Filenames, pdf \in Pdfs, a \in ChunkArgs :
        /\ script' = s
        /\ pdf_filename' = f
        /\ text' = ExtractText(pdf)
        /\ args' = a
    /\ caller' = "main"
    /\ calls' = <<"extract_text_from_pdf">>
    /\ pc' = "main_text"
    /\ UNCHANGED <<env, results, chunks, documents, i, remote, store, next_uuid, console,
                   outcome, exc, run, history>>

\* main: if not os.path.exists(args.pdf_path): print error; return
RunMainNotFound ==
    /\ pc = "idle"
    /\ \E s \in IngestScripts : script' = s
    /\ caller' = "main"
    /\ console' = Append(console, [msg |-> "PDF file not found"])
    /\ pc' = "exited"
    /\ UNCHANGED <<env, results, args, text, calls, pdf_filename, chunks, documents, i,
                   remote, store, next_uuid, outcome, exc, run, history>>

\* main: if not text.strip(): print "No text extracted"; return
MainNoText ==
    /\ pc = "main_text"
    /\ Strip(text) = <<>>
    /\ console' = Append(console, [msg |-> "No text extracted from PDF"])
    /\ pc' = "exited"
    /\ UNCHANGED <<env, results, script, caller, args, text, calls, pdf_filename, chunks,
                   documents, i, remote, store, next_uuid, outcome, exc, run, history>>

\* main going on to chunk and ingest without the check of the text
MainChunkUnchecked ==
    /\ pc = "main_text"
    /\ chunks' = ChunkText(text, args.chunk_size, args.chunk_overlap)
    /\ calls' = calls \o <<"chunk_text", "ingest_to_astra">>
    /\ pc' = "verify"
    /\ UNCHANGED <<env, results, script, caller, args, text, pdf_filename, documents, i,
                   remote, store, next_uuid, console, outcome, exc, run, history>>

\* main: chunks = chunk_text(...); ingest_to_astra(chunks, collection, pdf_filename)
MainChunk ==
    /\ pc = "main_text"
    /\ Strip(text) # <<>>
    /\ chunks' = ChunkText(text, args.chunk_size, args.chunk_overlap)
    /\ calls' = calls \o <<"chunk_text", "ingest_to_astra">>
    /\ pc' = "verify"
    /\ UNCHANGED <<env, results, script, caller, args, text, pdf_filename, documents, i,
                   remote, store, next_uuid, console, outcome, exc, run, history>>

\* main: ingest_to_astra returned; print "INGESTION COMPLETE!"
MainComplete ==
    /\ pc = "ended"
    /\ caller = "main"
    /\ script \in IngestScripts
    /\ outcome = "returned"
    /\ console' = Append(console, [msg |-> "INGESTION COMPLETE"])
    /\ pc' = "exited"
    /\ UNCHANGED <<env, results, script, caller, args, text, calls, pdf_filename, chunks,
                   documents, i, remote, store, next_uuid, outcome, exc, run, history>>

\* main: except Exception as e: print "Error during ingestion"
MainExcept ==
    /\ pc = "ended"
    /\ caller = "main"
    /\ script \in IngestScripts
    /\ outcome = "raised"
    /\ console' = Append(console, [msg |-> "Error during ingestion"])
    /\ pc' = "exited"
    /\ UNCHANGED <<env, results, script, caller, args, text, calls, pdf_filename, chunks,
                   documents, i, remote, store, next_uuid, outcome, exc, run, history>>

----------------------------------------------------------------------------
(* ingest_to_astra *)

\* ingest_to_astra(chunks, collection_name, pdf_filename) is called
CallIngest ==
    /\ pc = "idle"
    /\ \E s \in IngestScripts, n \in 0..MaxChunks, f \in Filenames :
        /\ script' = s
        /\ chunks' = ChunkList(n)
        /\ pdf_filename' = f
    /\ caller' = "direct"
    /\ calls' = <<"ingest_to_astra">>
    /\ pc' = "verify"
    /\ UNCHANGED <<env, results, args, text, documents, i, remote, store, next_uuid,
                   console, outcome, exc, run, history>>

\* the check with the token forgotten: not ASTRA_DB_API_ENDPOINT
MissingEndpointOnly == Falsy(env.API_ENDPOINT)

\* not ASTRA_DB_API_ENDPOINT or not ASTRA_DB_APPLICATION_TOKEN
MissingCredentials == Falsy(env.API_ENDPOINT) \/ Falsy(env.APPLICATION_TOKEN)

\* the function ends by raising e
Raise(e) ==
    /\ outcome' = "raised"
    /\ exc' = e
    /\ pc' = "ended"

\* if not endpoint or not token: raise ValueError("Missing Astra DB credentials")
VerifyRaise ==
    /\ pc = "verify"
    /\ script \in IngestScripts
    /\ MissingCredentials
    /\ Raise("ValueError: Missing Astra DB credentials")
    /\ UNCHANGED <<env, results, script, caller, args, text, calls, pdf_filename, chunks,
                   documents, i, remote, store, next_uuid, console, run, history>>

\* ingest_pdf_to_astra: if not OPENAI_API_KEY: raise ValueError
OpenAIKeyRaise ==
    /\ pc = "verify"
    /\ script = "openai"
    /\ ~MissingCredentials
    /\ Falsy(env.OPENAI_API_KEY)
    /\ console' = Append(console, [msg |-> "WARNING: OPENAI_API_KEY not found"])
    /\ Raise("ValueError: Missing OPENAI_API_KEY")
    /\ UNCHANGED <<env, results, script, caller, args, text, calls, pdf_filename, chunks,
                   documents, i, remote, store, next_uuid, run, history>>

\* client = DataAPIClient(token); database = client.get_database(endpoint)
Connect ==
    /\ pc = "verify"
    /\ script \in BatchScripts
    /\ ~MissingCredentials
    /\ remote' = remote \o <<Call("DataAPIClient"), Call("get_database")>>
    /\ pc' = "collection"
    /\ UNCHANGED <<env, results, script, caller, args, text, calls, pdf_filename, chunks,
                   documents, i, store, next_uuid, console, outcome, exc, run, history>>

\* collection = database.get_collection(collection_name)
SimpleGetCollection ==
    /\ pc = "collection"
    /\ script = "simple"
    /\ remote' = Append(remote, Call("get_collection"))
    /\ pc' = "prepare"
    /\ UNCHANGED <<env, results, script, caller, args, text, calls, pdf_filename, chunks,
                   documents, i, store, next_uuid, console, outcome, exc, run, history>>

\* try: collection = database.create_collection(collection_name)
V2CreateCollection ==
    /\ pc = "collection"
    /\ script = "v2"
    /\ remote' = Append(remote, Call("create_collection"))
    /\ pc' = "prepare"
    /\ UNCHANGED <<env, results, script, caller, args, text, calls, pdf_filename, chunks,
                   documents, i, store, next_uuid, console, outcome, exc, run, history>>

\* except Exception: collection = database.get_collection(collection_name)
V2GetExistingCollection ==
    /\ pc = "collection"
    /\ script = "v2"
    /\ remote' = remote \o <<FailedCall("create_collection"), Call("get_collection")>>
    /\ pc' = "prepare"
    /\ UNCHANGED <<env, results, script, caller, args, text, calls, pdf_filename, chunks,
                   documents, i, store, next_uuid, console, outcome, exc, run, history>>

\* for i, chunk in enumerate(chunks): ... documents.append(doc)
Prepare ==
    /\ pc = "prepare"
    /\ script \in BatchScripts
    /\ documents' = IF script = "simple" THEN SimpleDocuments(chunks, pdf_filename)
                    ELSE V2Documents(chunks, pdf_filename)
    /\ i' = 0
    /\ pc' = "loop"
    /\ UNCHANGED <<env, results, script, caller, args, text, calls, pdf_filename, chunks,
                   remote, store, next_uuid, console, outcome, exc, run, history>>

\* the slice one record short: documents[i:i+batch_size-1]
BatchOneShort == Slice(documents, i, i + batch_size - 1)

\* batch = documents[i:i+batch_size]
Batch == Slice(documents, i, i + batch_size)

\* the store's insert-by-id: an accepted batch leaves its _ids in the collection
Upsert(batch) == store \cup Ids(batch)

\* result = collection.insert_many(batch) returns; print "Inserted batch k/total";
\* time.sleep(0.5)
SimpleInsertOk ==
    /\ pc = "loop"
    /\ script = "simple"
    /\ i < Len(documents)
    /\ remote' = remote \o <<InsertCall(Batch, TRUE), Call("sleep")>>
    /\ store' = Upsert(Batch)
    /\ console' = Append(console, [msg |-> "Inserted batch", batch |-> i \div batch_size + 1,
                                   of |-> TotalBatches(Len(documents)), n |-> Len(Batch)])
    /\ i' = i + batch_size
    /\ UNCHANGED <<env, results, script, caller, pc, args, text, calls, pdf_filename, chunks,
                   documents, next_uuid, outcome, exc, run, history>>

\* insert_many raises and no except clause catches it
SimpleInsertErrorUncaught ==
    /\ pc = "loop"
    /\ script = "simple"
    /\ i < Len(documents)
    /\ remote' = Append(remote, InsertCall(Batch, FALSE))
    /\ Raise("Exception: insert_many")
    /\ UNCHANGED <<env, results, script, caller, args, text, calls, pdf_filename, chunks,
                   documents, i, store, next_uuid, console, run, history>>

\* insert_many raises; the except clause prints the error and the same batch
\* is submitted again
SimpleInsertErrorRetry ==
    /\ pc = "loop"
    /\ script = "simple"
    /\ i < Len(documents)
    /\ remote' = remote \o <<InsertCall(Batch, FALSE), Call("sleep")>>
    /\ console' = Append(console, [msg |-> "Error inserting batch", batch |-> i \div batch_size + 1])
    /\ UNCHANGED <<env, results, script, caller, pc, args, text, calls, pdf_filename, chunks,
                   documents, i, store, next_uuid, outcome, exc, run, history>>

\* insert_many raises; except Exception as e: print "Error inserting batch k";
\* time.sleep(0.5); the loop goes on with the next batch
SimpleInsertError ==
    /\ pc = "loop"
    /\ script = "simple"
    /\ i < Len(documents)
    /\ remote' = remote \o <<InsertCall(Batch, FALSE), Call("sleep")>>
    /\ console' = Append(console, [msg |-> "Error inserting batch", batch |-> i \div batch_size + 1])
    /\ i' = i + batch_size
    /\ UNCHANGED <<env, results, script, caller, pc, args, text, calls, pdf_filename, chunks,
                   documents, store, next_uuid, outcome, exc, run, history>>

\* collection.insert_many(batch) returns; print "Inserted batch k/total";
\* time.sleep(0.1)
V2InsertOk ==
    /\ pc = "loop"
    /\ script = "v2"
    /\ i < Len(documents)
    /\ remote' = remote \o <<InsertCall(Batch, TRUE), Call("sleep")>>
    /\ store' = Upsert(Batch)
    /\ console' = Append(console, [msg |-> "Inserted batch", batch |-> i \div batch_size + 1,
                                   of |-> (Len(documents) - 1) \div batch_size + 1])
    /\ i' = i + batch_size
    /\ UNCHANGED <<env, results, script, caller, pc, args, text, calls, pdf_filename, chunks,
                   documents, next_uuid, outcome, exc, run, history>>

\* collection.insert_many(batch) raises: nothing catches it inside
\* ingest_to_astra, which ends by raising
V2InsertError ==
    /\ pc = "loop"
    /\ script = "v2"
    /\ i < Len(documents)
    /\ remote' = Append(remote, InsertCall(Batch, FALSE))
    /\ Raise("Exception: insert_many")
    /\ UNCHANGED <<env, results, script, caller, args, text, calls, pdf_filename, chunks,
                   documents, i, store, next_uuid, console, run, history>>

\* the loop is over: print "[+] Successfully ingested ..."; return collection
Finish ==
    /\ pc = "loop"
    /\ script \in BatchScripts
    /\ i >= Len(documents)
    /\ console' = Append(console, [msg |-> "Successfully ingested"])
    /\ outcome' = "returned"
    /\ pc' = "ended"
    /\ UNCHANGED <<env, results, script, caller, args, text, calls, pdf_filename, chunks,
                   documents, i, remote, store, next_uuid, exc, run, history>>

\* LangChain variants: documents built; vstore = AstraDB(embedding, collection_name,
\* api_endpoint, token)
LcConnect ==
    /\ pc = "verify"
    /\ script \in LcScripts
    /\ ~MissingCredentials
    /\ script = "openai" => ~Falsy(env.OPENAI_API_KEY)
    /\ documents' = LcDocuments(chunks, pdf_filename)
    /\ remote' = Append(remote, Call("AstraDB"))
    /\ pc' = "add_texts"
    /\ UNCHANGED <<env, results, script, caller, args, text, calls, pdf_filename, chunks,
                   i, store, next_uuid, console, outcome, exc, run, history>>

\* what vstore.add_texts(texts=texts, metadatas=metadatas) submits: no ids are
\* passed, so the store makes up a fresh identifier for every text
LcSubmitted ==
    [k \in 1..Len(documents) |->
        [_id |-> Uuid(next_uuid + k), page_content |-> documents[k].page_content,
         source |-> documents[k].source, chunk_id |-> documents[k].chunk_id,
         total_chunks |-> documents[k].total_chunks]]

\* vstore.add_texts(...) returns; print "Successfully ingested"; return vstore
LcAddTexts ==
    /\ pc = "add_texts"
    /\ remote' = Append(remote, [op |-> "add_texts", batch |-> LcSubmitted, ok |-> TRUE])
    /\ store' = Upsert(LcSubmitted)
    /\ next_uuid' = next_uuid + Len(documents)
    /\ console' = Append(console, [msg |-> "Successfully ingested"])
    /\ outcome' = "returned"
    /\ pc' = "ended"
    /\ UNCHANGED <<env, results, script, caller, args, text, calls, pdf_filename, chunks,
                   documents, i, exc, run, history>>

\* vstore.add_texts(...) raises
LcAddTextsError ==
    /\ pc = "add_texts"
    /\ remote' = Append(remote, [op |-> "add_texts", batch |-> LcSubmitted, ok |-> FALSE])
    /\ next_uuid' = next_uuid + Len(documents)
    /\ Raise("Exception: add_texts")
    /\ UNCHANGED <<env, results, script, caller, args, text, calls, pdf_filename, chunks,
                   documents, i, store, console, run, history>>

\* what a finished run reports of itself: how ingest_to_astra ended and the
\* closing line it printed
Summary == [outcome |-> outcome, exc |-> exc,
            closing |-> IF console = <<>> THEN "none" ELSE console[Len(console)].msg]

\* the same ingestion is run again, as a fresh process, against the same store
Rerun ==
    /\ pc = "ended"
    /\ caller = "direct"
    /\ script \in IngestScripts
    /\ run < MaxRuns
    /\ history' = Append(history, [submitted |-> Submitted, store |-> store,
                                   failed |-> Failed, outcome |-> outcome,
                                   summary |-> Summary])
    /\ run' = run + 1
    /\ documents' = <<>>
    /\ i' = 0
    /\ remote' = <<>>
    /\ console' = <<>>
    /\ outcome' = "none"
    /\ exc' = "none"
    /\ pc' = "verify"
    /\ UNCHANGED <<env, results, script, caller, args, text, calls, pdf_filename, chunks,
                   store, next_uuid>>

----------------------------------------------------------------------------
(* query_astra.py *)

\* main: args.query is given; query_astra(args.query, args.collection, args.limit)
RunQuery ==
    /\ pc = "idle"
    /\ script' = "query"
    /\ caller' = "main"
    /\ calls' = <<"query_astra">>
    /\ pc' = "verify"
    /\ UNCHANGED <<env, results, args, text, pdf_filename, chunks, documents, i, remote,
                   store, next_uuid, console, outcome, exc, run, history>>

\* main: neither a query nor --list-collections: print the usage
RunQueryNoArgs ==
    /\ pc = "idle"
    /\ script' = "query"
    /\ caller' = "main"
    /\ console' = Append(console, [msg |-> "Please provide a query or use --list-collections"])
    /\ pc' = "exited"
    /\ UNCHANGED <<env, results, args, text, calls, pdf_filename, chunks, documents, i,
                   remote, store, next_uuid, outcome, exc, run, history>>

\* query_astra: if not endpoint or not token: raise ValueError
QueryVerifyRaise ==
    /\ pc = "verify"
    /\ script = "query"
    /\ MissingCredentials
    /\ Raise("ValueError: Missing Astra DB credentials")
    /\ UNCHANGED <<env, results, script, caller, args, text, calls, pdf_filename, chunks,
                   documents, i, remote, store, next_uuid, console, run, history>>

\* query_astra: client, database, collection = database.get_collection(name)
QueryConnect ==
    /\ pc = "verify"
    /\ script = "query"
    /\ ~MissingCredentials
    /\ remote' = remote \o <<Call("DataAPIClient"), Call("get_database_by_api_endpoint"),
                             Call("get_collection")>>
    /\ pc' = "find"
    /\ UNCHANGED <<env, results, script, caller, args, text, calls, pdf_filename, chunks,
                   documents, i, store, next_uuid, console, outcome, exc, run, history>>

\* a stored text of n characters
StoredText(n) == [k \in 1..n |-> "x"]

\* the characters that are not ASCII, among those the stored texts are made of
NonAscii == {"é"}

\* s.encode('ascii', 'ignore').decode('ascii')
EncodeAsciiIgnore(s) == SelectSeq(s, LAMBDA c : c \notin NonAscii)

\* the documents the store can return: a short text, texts of 500 and of 501
\* characters, a document without "$vectorize", and a text of 501 characters
\* that starts with a non-ASCII character
ResultDocs ==
    { [id |-> "d1", has_text |-> TRUE,  vectorize |-> StoredText(2)],
      [id |-> "d2", has_text |-> TRUE,  vectorize |-> StoredText(PreviewLen)],
      [id |-> "d3", has_text |-> TRUE,  vectorize |-> StoredText(PreviewLen + 1)],
      [id |-> "d4", has_text |-> FALSE, vectorize |-> <<>>],
      [id |-> "d5", has_text |-> TRUE,  vectorize |-> <<"é">> \o StoredText(PreviewLen)] }

\* what collection.find(..., limit=limit) can yield: up to MaxResults distinct
\* documents, in the store's order
ResultLists ==
    { r \in UNION { [1..n -> ResultDocs] : n \in 0..MaxResults } :
        \A a, b \in DOMAIN r : a # b => r[a] # r[b] }

\* 'No text content'
NoTextContent == <<"N", "o", " ", "t", "e", "x", "t", " ",
                   "c", "o", "n", "t", "e", "n", "t">>

\* vectorized_text = doc.get('$vectorize', 'No text content')
VectorizedText(doc) == IF doc.has_text THEN doc.vectorize ELSE NoTextContent

\* the preview without the cut at 500 characters
PreviewUncut(vectorized_text) == vectorized_text

\* preview = vectorized_text[:500] if len(vectorized_text) > 500 else vectorized_text
Preview(vectorized_text) ==
    IF Len(vectorized_text) > PreviewLen
    THEN Slice(vectorized_text, 0, PreviewLen)
    ELSE vectorized_text

\* the lines printed for result k: "[Result k]", the document id, the encoded
\* preview and, for a text of more than 500 characters, "... (showing x of y
\* characters)"
RenderResult(k, doc) ==
    [msg     |-> "Result",
     k       |-> k,
     id      |-> doc.id,
     shown   |-> EncodeAsciiIgnore(Preview(VectorizedText(doc))),
     notice  |-> Len(VectorizedText(doc)) > PreviewLen,
     showing |-> Len(Preview(VectorizedText(doc))),
     of      |-> Len(VectorizedText(doc))]

\* query_astra: results = collection.find(...); every result is printed in the
\* order of the cursor, then "No results found" when result_count == 0 and
\* "Found n result(s)" otherwise
QueryFind ==
    /\ pc = "find"
    /\ remote' = Append(remote, Call("find"))
    /\ results' \in ResultLists
    /\ console' = console
                  \o [k \in 1..Len(results') |-> RenderResult(k, results'[k])]
                  \o <<IF Len(results') = 0 THEN [msg |-> "No results found"]
                       ELSE [msg |-> "Found", n |-> Len(results')]>>
    /\ outcome' = "returned"
    /\ pc' = "ended"
    /\ UNCHANGED <<env, script, caller, args, text, calls, pdf_filename, chunks,
                   documents, i, store, next_uuid, exc, run, history>>

\* the search raises, and the failure is reported as an empty result
QueryFindErrorSwallowed ==
    /\ pc = "find"
    /\ remote' = Append(remote, FailedCall("find"))
    /\ console' = Append(console, [msg |-> "No results found"])
    /\ outcome' = "returned"
    /\ pc' = "ended"
    /\ UNCHANGED <<env, results, script, caller, args, text, calls, pdf_filename,
                   chunks, documents, i, store, next_uuid, exc, run, history>>

\* query_astra: the search raises (connection or authentication failure)
QueryFindError ==
    /\ pc = "find"
    /\ remote' = Append(remote, FailedCall("find"))
    /\ Raise("Exception: find")
    /\ UNCHANGED <<env, results, script, caller, args, text, calls, pdf_filename,
                   chunks, documents, i, store, next_uuid, console, run, history>>

\* main: --list-collections; list_collections()
RunList ==
    /\ pc = "idle"
    /\ script' = "list"
    /\ caller' = "main"
    /\ calls' = <<"list_collections">>
    /\ pc' = "connect"
    /\ UNCHANGED <<env, results, args, text, pdf_filename, chunks, documents, i, remote,
                   store, next_uuid, console, outcome, exc, run, history>>

\* list_collections: client = DataAPIClient(token) accepts any token;
\* get_database_by_api_endpoint(endpoint) rejects an endpoint that is no URL
ListConnectError ==
    /\ pc = "connect"
    /\ script = "list"
    /\ env.API_ENDPOINT # "set"
    /\ remote' = remote \o <<Call("DataAPIClient"), FailedCall("get_database_by_api_endpoint")>>
    /\ Raise("Exception: get_database_by_api_endpoint")
    /\ UNCHANGED <<env, results, script, caller, args, text, calls, pdf_filename, chunks,
                   documents, i, store, next_uuid, console, run, history>>

\* list_collections: client and database are built, whatever the token
ListConnect ==
    /\ pc = "connect"
    /\ script = "list"
    /\ env.API_ENDPOINT = "set"
    /\ remote' = remote \o <<Call("DataAPIClient"), Call("get_database_by_api_endpoint")>>
    /\ pc' = "list"
    /\ UNCHANGED <<env, results, script, caller, args, text, calls, pdf_filename, chunks,
                   documents, i, store, next_uuid, console, outcome, exc, run, history>>

\* list_collections: collections = database.list_collection_names() returns
\* (the store answers a request that carries a token); the names are printed
ListCollectionNames ==
    /\ pc = "list"
    /\ script = "list"
    /\ env.APPLICATION_TOKEN = "set"
    /\ remote' = Append(remote, Call("list_collection_names"))
    /\ console' = Append(console, [msg |-> "AVAILABLE COLLECTIONS"])
    /\ outcome' = "returned"
    /\ pc' = "ended"
    /\ UNCHANGED <<env, results, script, caller, args, text, calls, pdf_filename, chunks,
                   documents, i, store, next_uuid, exc, run, history>>

\* list_collections: database.list_collection_names() raises (no or bad
\* token, connection failure)
ListCollectionNamesError ==
    /\ pc = "list"
    /\ script = "list"
    /\ remote' = Append(remote, FailedCall("list_collection_names"))
    /\ Raise("Exception: list_collection_names")
    /\ UNCHANGED <<env, results, script, caller, args, text, calls, pdf_filename, chunks,
                   documents, i, store, next_uuid, console, run, history>>

\* main: query_astra or list_collections returned
QueryMainReturn ==
    /\ pc = "ended"
    /\ script \in {"query", "list"}
    /\ outcome = "returned"
    /\ pc' = "exited"
    /\ UNCHANGED <<env, results, script, caller, args, text, calls, pdf_filename, chunks,
                   documents, i, remote, store, next_uuid, console, outcome, exc,
                   run, history>>

\* main: except Exception as e: print "[-] Error: ..."
QueryMainExcept ==
    /\ pc = "ended"
    /\ script \in {"query", "list"}
    /\ outcome = "raised"
    /\ console' = Append(console, [msg |-> "Error"])
    /\ pc' = "exited"
    /\ UNCHANGED <<env, results, script, caller, args, text, calls, pdf_filename, chunks,
                   documents, i, remote, store, next_uuid, outcome, exc, run, history>>

----------------------------------------------------------------------------
(* test_connection.py *)

\* the script starts: the banner prints ASTRA_DB_APPLICATION_TOKEN[:20], which
\* raises TypeError, uncaught, when the token is None
TestBannerCrash ==
    /\ pc = "idle"
    /\ env.APPLICATION_TOKEN = "unset"
    /\ script' = "test_connection"
    /\ caller' = "module"
    /\ outcome' = "raised"
    /\ exc' = "TypeError: 'NoneType' object is not subscriptable"
    /\ pc' = "exited"
    /\ UNCHANGED <<env, results, args, text, calls, pdf_filename, chunks, documents, i,
                   remote, store, next_uuid, console, run, history>>

\* the banner is printed
TestBanner ==
    /\ pc = "idle"
    /\ env.APPLICATION_TOKEN # "unset"
    /\ script' = "test_connection"
    /\ caller' = "module"
    /\ console' = Append(console, [msg |-> "ASTRA DB CONNECTION TEST"])
    /\ pc' = "connect"
    /\ UNCHANGED <<env, results, args, text, calls, pdf_filename, chunks, documents, i,
                   remote, store, next_uuid, outcome, exc, run, history>>

\* try: client = DataAPIClient(token); get_database_by_api_endpoint(endpoint)
\* rejects an endpoint that is no URL; except Exception: print "ERROR"
TestConnectError ==
    /\ pc = "connect"
    /\ script = "test_connection"
    /\ env.API_ENDPOINT # "set"
    /\ remote' = remote \o <<Call("DataAPIClient"), FailedCall("get_database_by_api_endpoint")>>
    /\ console' = Append(console, [msg |-> "ERROR"])
    /\ pc' = "exited"
    /\ UNCHANGED <<env, results, script, caller, args, text, calls, pdf_filename, chunks,
                   documents, i, store, next_uuid, outcome, exc, run, history>>

\* client and database are built, whatever the token
TestConnect ==
    /\ pc = "connect"
    /\ script = "test_connection"
    /\ env.API_ENDPOINT = "set"
    /\ remote' = remote \o <<Call("DataAPIClient"), Call("get_database_by_api_endpoint")>>
    /\ pc' = "list"
    /\ UNCHANGED <<env, results, script, caller, args, text, calls, pdf_filename, chunks,
                   documents, i, store, next_uuid, console, outcome, exc, run, history>>

\* collections = database.list_collection_names() returns; print "SUCCESS"
TestListCollectionNames ==
    /\ pc = "list"
    /\ script = "test_connection"
    /\ env.APPLICATION_TOKEN = "set"
    /\ remote' = Append(remote, Call("list_collection_names"))
    /\ console' = Append(console, [msg |-> "SUCCESS! Connection working."])
    /\ pc' = "exited"
    /\ UNCHANGED <<env, results, script, caller, args, text, calls, pdf_filename, chunks,
                   documents, i, store, next_uuid, outcome, exc, run, history>>

\* database.list_collection_names() raises; except Exception: print "ERROR"
TestListCollectionNamesError ==
    /\ pc = "list"
    /\ script = "test_connection"
    /\ remote' = Append(remote, FailedCall("list_collection_names"))
    /\ console' = Append(console, [msg |-> "ERROR"])
    /\ pc' = "exited"
    /\ UNCHANGED <<env, results, script, caller, args, text, calls, pdf_filename, chunks,
                   documents, i, store, next_uuid, outcome, exc, run, history>>

----------------------------------------------------------------------------
(* chunk_text on its own *)

\* the characters of the texts handed to chunk_text
TextChars == {"a", " ", "\n"}

\* the texts of up to MaxTextLen characters
Texts == UNION { [1..n -> TextChars] : n \in 0..MaxTextLen }

\* the chunk_size and chunk_overlap with 0 <= chunk_overlap < chunk_size
SizeArgs == { [chunk_size |-> cs, chunk_overlap |-> co] :
                cs \in 1..MaxChunkSize, co \in 0..(MaxChunkSize - 1) }
            \ { a \in [chunk_size : 1..MaxChunkSize,
                       chunk_overlap : 0..(MaxChunkSize - 1)] :
                  a.chunk_overlap >= a.chunk_size }

\* one unbroken word of 15 characters, "A"*1500 at one hundredth
LongWord == [k \in 1..15 |-> "A"]

\* chunk_size=1000, chunk_overlap=200 at one hundredth
LongWordArgs == [chunk_size |-> 10, chunk_overlap |-> 2]

InitChunk ==
    /\ env \in [API_ENDPOINT : {"set"}, APPLICATION_TOKEN : {"set"},
                OPENAI_API_KEY : {"set"}]
    /\ results = <<>>
    /\ script = "none"
    /\ caller = "direct"
    /\ pc = "chunk_text"
    /\ \/ text \in Texts /\ args \in SizeArgs
       \/ text = LongWord /\ args = LongWordArgs
    /\ calls = <<>>
    /\ pdf_filename = <<>>
    /\ chunks = <<>>
    /\ documents = <<>>
    /\ i = 0
    /\ remote = <<>>
    /\ store = {}
    /\ next_uuid = 0
    /\ console = <<>>
    /\ outcome = "none"
    /\ exc = "none"
    /\ run = 1
    /\ history = <<>>

\* chunks = chunk_text(text, chunk_size, chunk_overlap)
CallChunkText ==
    /\ pc = "chunk_text"
    /\ chunks' = ChunkText(text, args.chunk_size, args.chunk_overlap)
    /\ calls' = Append(calls, "chunk_text")
    /\ console' = Append(console, [msg |-> "Created chunks", n |-> Len(chunks')])
    /\ pc' = "chunked"
    /\ UNCHANGED <<env, results, script, caller, args, text, pdf_filename, documents, i,
                   remote, store, next_uuid, outcome, exc, run, history>>

NextChunk == CallChunkText

SpecChunk == InitChunk /\ [][NextChunk]_vars

----------------------------------------------------------------------------
(* ingest_pdf_simple.py, several documents into one collection *)

\* ingest_to_astra(chunks, collection_name, pdf_filename) has been called by
\* ingest_pdf_simple.py with the credentials set
InitDocs ==
    /\ env \in [API_ENDPOINT : {"set"}, APPLICATION_TOKEN : {"set"},
                OPENAI_API_KEY : {"unset", "set"}]
    /\ results = <<>>
    /\ script = "simple"
    /\ caller = "direct"
    /\ pc = "verify"
    /\ args = NoArgs
    /\ text = <<>>
    /\ calls = <<"ingest_to_astra">>
    /\ pdf_filename \in Filenames
    /\ chunks \in { ChunkList(n) : n \in 1..MaxDocChunks }
    /\ documents = <<>>
    /\ i = 0
    /\ remote = <<>>
    /\ store = {}
    /\ next_uuid = 0
    /\ console = <<>>
    /\ outcome = "none"
    /\ exc = "none"
    /\ run = 1
    /\ history = <<>>

\* the script is run again, as a fresh process, on a document with another
\* filename, against the same collection
NextDocument ==
    /\ pc = "ended"
    /\ script = "simple"
    /\ run < MaxRuns
    /\ \E f \in Filenames, n \in 1..MaxDocChunks :
        /\ f # pdf_filename
        /\ \A r \in 1..Len(history) : history[r].pdf_filename # f
        /\ pdf_filename' = f
        /\ chunks' = ChunkList(n)
    /\ history' = Append(history, [submitted |-> Submitted, store |-> store,
                                   failed |-> Failed, outcome |-> outcome,
                                   summary |-> Summary,
                                   pdf_filename |-> pdf_filename])
    /\ run' = run + 1
    /\ documents' = <<>>
    /\ i' = 0
    /\ remote' = <<>>
    /\ console' = <<>>
    /\ outcome' = "none"
    /\ exc' = "none"
    /\ pc' = "verify"
    /\ UNCHANGED <<env, results, script, caller, args, text, calls, store, next_uuid>>

NextDocs ==
    \/ Connect
    \/ SimpleGetCollection
    \/ Prepare
    \/ SimpleInsertOk
    \/ SimpleInsertError
    \/ Finish
    \/ NextDocument

SpecDocs == InitDocs /\ [][NextDocs]_vars

----------------------------------------------------------------------------
Next ==
    \/ RunMain
    \/ RunMainNotFound
    \/ MainNoText
    \/ MainChunk
    \/ MainComplete
    \/ MainExcept
    \/ CallIngest
    \/ VerifyRaise
    \/ OpenAIKeyRaise
    \/ Connect
    \/ SimpleGetCollection
    \/ V2CreateCollection
    \/ V2GetExistingCollection
    \/ Prepare
    \/ SimpleInsertOk
    \/ SimpleInsertError
    \/ V2InsertOk
    \/ V2InsertError
    \/ Finish
    \/ LcConnect
    \/ LcAddTexts
    \/ LcAddTextsError
    \/ Rerun
    \/ RunQuery
    \/ RunQueryNoArgs
    \/ QueryVerifyRaise
    \/ QueryConnect
    \/ QueryFind
    \/ QueryFindError
    \/ RunList
    \/ ListConnectError
    \/ ListConnect
    \/ ListCollectionNames
    \/ ListCollectionNamesError
    \/ QueryMainReturn
    \/ QueryMainExcept
    \/ TestBannerCrash
    \/ TestBanner
    \/ TestConnectError
    \/ TestConnect
    \/ TestListCollectionNames
    \/ TestListCollectionNamesError

Spec == Init /\ [][Next]_vars

----------------------------------------------------------------------------
(* Properties *)

\* the batches submitted so far in this run, in order
Batches == [k \in 1..Len(InsertCalls) |-> InsertCalls[k].batch]

\* the sizes of the batches submitted so far
BatchSizes == [k \in 1..Len(Batches) |-> Len(Batches[k])]

\* a credential is absent: the variable is unset or set to nothing
CredentialsAbsent == env.API_ENDPOINT # "set" \/ env.APPLICATION_TOKEN # "set"

\* the text is empty or made of whitespace only
IsBlank(s) == \A k \in 1..Len(s) : s[k] \in Whitespace

\* C1: in ingest_pdf_simple.ingest_to_astra, once the store is reached, every
\* batch of the chunk list is attempted whichever insert_many calls raise (the
\* k-th call carries the k-th slice of 20 records, and the calls cover the
\* whole list), and the function returns normally instead of raising.
C1_SimpleFailureIsolation ==
    (script = "simple" /\ pc \in {"ended", "exited"} /\ RemoteCalls # <<>>) =>
        /\ outcome = "returned"
        /\ exc = "none"
        /\ Len(InsertCalls) * batch_size >= Len(chunks)
        /\ \A k \in 1..Len(InsertCalls) :
              InsertCalls[k].batch =
                  Slice(SimpleDocuments(chunks, pdf_filename),
                        (k - 1) * batch_size, k * batch_size)

\* a run of the simple ingestor in which a batch failed and the next batch
\* was submitted and accepted
C1_Witness ==
    /\ script = "simple"
    /\ pc = "ended"
    /\ outcome = "returned"
    /\ \E k \in 1..(Len(InsertCalls) - 1) :
          ~InsertCalls[k].ok /\ InsertCalls[k + 1].ok

\* C2: in ingest_pdf_to_astra_v2.ingest_to_astra, a failure of insert_many on
\* one batch does not abort the submission of the batches after it: when the
\* function has ended, every batch of the chunk list has been submitted.
C2_V2FailureIsolation ==
    (script = "v2" /\ pc \in {"ended", "exited"} /\ RemoteCalls # <<>>) =>
        Len(InsertCalls) * batch_size >= Len(chunks)

\* C3: the batching loop cuts the records, in order, into consecutive batches
\* of 1 to 20 records, only the last one shorter than 20; the batches
\* submitted so far are a prefix of the record list, and when the loop has run
\* to its end they are the whole list, in as many insert_many calls as
\* total_batches = (n-1)//20 + 1 (none for n = 0, sizes 20, 20, 5 for n = 45).
C3_BatchPartition ==
    (script \in BatchScripts /\ pc \in {"loop", "ended", "exited"}) =>
        LET n == Len(documents)
            sent == Join(Batches)
        IN  /\ \A k \in 1..Len(Batches) :
                  /\ Len(Batches[k]) >= 1
                  /\ Len(Batches[k]) <= batch_size
                  /\ k < Len(Batches) => Len(Batches[k]) = batch_size
            /\ sent = SubSeq(documents, 1, Len(sent))
            /\ outcome = "returned" =>
                  /\ n = Len(chunks)
                  /\ sent = documents
                  /\ Len(Batches) = TotalBatches(n)
                  /\ n = 0 => Len(Batches) = 0
                  /\ n = 45 => BatchSizes = <<20, 20, 5>>

\* a finished run on 45 chunks: three batches of 20, 20 and 5 records
C3_Witness ==
    /\ script \in BatchScripts
    /\ outcome = "returned"
    /\ Len(chunks) = 45
    /\ BatchSizes = <<20, 20, 5>>

\* C4: within one document the _id is the script's function of the file name
\* and the chunk index, and it is injective over the index: the records of a
\* run have pairwise different _ids, and so have the records submitted.
C4_IdInjective ==
    (script \in BatchScripts /\ pc \in {"loop", "ended", "exited"}) =>
        /\ \A k \in 1..Len(documents) :
              /\ documents[k].chunk_id = k - 1
              /\ documents[k]._id =
                    IF script = "simple" THEN SimpleId(pdf_filename, k - 1)
                    ELSE V2Id(pdf_filename, k - 1)
        /\ Cardinality(Ids(documents)) = Len(documents)
        /\ Cardinality(Submitted) = Len(Join(Batches))

\* a run that has submitted three batches, 45 records in all
C4_Witness ==
    /\ script \in BatchScripts
    /\ Len(Batches) = 3
    /\ Len(Join(Batches)) = 45
    /\ Cardinality(Submitted) = 45

\* C5: when ingest_to_astra is run again on the same chunk list and file name
\* and both runs return, the second run submits exactly the _ids the first one
\* submitted; and when the store accepted every batch of both runs (insert by
\* id being an upsert), the collection holds after the second run exactly the
\* _ids it held after the first one.
C5_RerunSameIds ==
    \A r \in 1..Len(history) :
        (script \in BatchScripts /\ outcome = "returned"
            /\ history[r].outcome = "returned") =>
            /\ Submitted = history[r].submitted
            /\ (Failed = 0 /\ history[r].failed = 0) => store = history[r].store

\* a second run of 45 chunks, every batch of both runs accepted
C5_Witness ==
    /\ script \in BatchScripts
    /\ run = 2
    /\ outcome = "returned"
    /\ history[1].outcome = "returned"
    /\ Failed = 0
    /\ history[1].failed = 0
    /\ Cardinality(store) = 45
    /\ store = history[1].store

\* C6: every ingestion variant, the OpenAI and HuggingFace ones included,
\* submits for each chunk an _id that is a function of the file name and the
\* chunk index: a second run on the same chunks and file name submits the
\* _ids of the first.
C6_EveryVariantDerivesIds ==
    \A r \in 1..Len(history) :
        (script \in IngestScripts /\ outcome = "returned"
            /\ history[r].outcome = "returned") =>
            Submitted = history[r].submitted

\* C7: when the extracted text is empty or whitespace only, main stops after
\* the extraction: chunk_text and ingest_to_astra are not called, no client is
\* built and nothing is sent to the store.
C7_BlankTextAborts ==
    (script \in IngestScripts /\ caller = "main"
        /\ calls # <<>> /\ IsBlank(text)) =>
        /\ calls = <<"extract_text_from_pdf">>
        /\ chunks = <<>>
        /\ remote = <<>>
        /\ pc \in {"main_text", "exited"}

\* main has ended on a text that is not empty but holds only whitespace
C7_Witness ==
    /\ script \in IngestScripts
    /\ caller = "main"
    /\ text # <<>>
    /\ IsBlank(text)
    /\ pc = "exited"
    /\ calls = <<"extract_text_from_pdf">>

\* C8: when the endpoint or the token is absent, ingest_to_astra (every
\* variant) and query_astra raise the configuration error with no client
\* built and no remote call made.
C8_MissingCredentialsRaise ==
    (script \in IngestScripts \cup {"query"} /\ CredentialsAbsent) =>
        /\ remote = <<>>
        /\ pc \in {"main_text", "verify", "ended", "exited"}
        /\ outcome # "returned"
        /\ outcome = "raised" => exc = "ValueError: Missing Astra DB credentials"
        /\ pc = "ended" => outcome = "raised"

\* ingest_to_astra has raised the configuration error, the token being unset
C8_Witness ==
    /\ script \in IngestScripts
    /\ env.API_ENDPOINT = "set"
    /\ env.APPLICATION_TOKEN = "unset"
    /\ pc = "ended"
    /\ outcome = "raised"
    /\ exc = "ValueError: Missing Astra DB credentials"
    /\ remote = <<>>

\* C9: when the endpoint or the token is absent, list_collections and the
\* connection test stop before any remote call is attempted.
C9_ListAbortsBeforeRemoteCall ==
    (script \in {"list", "test_connection"} /\ CredentialsAbsent) =>
        RemoteCalls = <<>>

\* C10: what a run reports at its end tells a run in which a batch failed
\* from a run in which every batch was accepted.
C10_SummaryTellsFailure ==
    \A r \in 1..Len(history) :
        (script = "simple" /\ pc = "ended" /\ outcome = "returned"
            /\ history[r].outcome = "returned"
            /\ history[r].failed = 0 /\ Failed > 0) =>
            Summary # history[r].summary

\* C11: for every text and every chunk_size and chunk_overlap with
\* 0 <= chunk_overlap < chunk_size, every chunk chunk_text returns is non-empty
\* and at most chunk_size characters long, also when the text holds an
\* unbroken word longer than chunk_size; the unbroken word of 15 characters
\* with size 10 and overlap 2 ("A"*1500, 1000, 200 at one hundredth) gives two
\* chunks, of 10 and of at most 7 characters.
C11_ChunksWithinSize ==
    pc = "chunked" =>
        /\ \A k \in 1..Len(chunks) :
              Len(chunks[k]) >= 1 /\ Len(chunks[k]) <= args.chunk_size
        /\ (text = LongWord /\ args = LongWordArgs) =>
              /\ Len(chunks) = 2
              /\ Len(chunks[1]) = 10
              /\ Len(chunks[2]) <= 7

\* an unbroken word longer than chunk_size has been cut into several chunks
C11_Witness ==
    /\ pc = "chunked"
    /\ \A k \in 1..Len(text) : text[k] \notin Whitespace
    /\ Len(text) > args.chunk_size
    /\ args.chunk_overlap > 0
    /\ Len(chunks) >= 2

\* a line with this message has been printed
Printed(m) == \E k \in 1..Len(console) : console[k].msg = m

\* a client construction or remote call of the run has raised
RemoteFailure == \E k \in 1..Len(remote) : ~remote[k].ok

\* C12: a query_astra search for which the store returns zero results returns
\* normally and reports "No results found", and no error is printed; a query
\* whose credentials are missing or whose search fails raises, main prints
\* the error, and neither "No results found" nor "Found" is printed.
C12_ZeroResultsIsNotAnError ==
    (script = "query" /\ calls = <<"query_astra">> /\ pc \in {"ended", "exited"}) =>
        /\ (~RemoteFailure /\ ~CredentialsAbsent /\ results = <<>>) =>
              /\ outcome = "returned"
              /\ exc = "none"
              /\ Printed("No results found")
              /\ ~Printed("Error")
        /\ (RemoteFailure \/ CredentialsAbsent) =>
              /\ outcome = "raised"
              /\ exc # "none"
              /\ ~Printed("No results found")
              /\ ~Printed("Found")
              /\ pc = "exited" => Printed("Error")

\* a search that found nothing has been reported and main has returned
C12_Witness ==
    /\ script = "query"
    /\ pc = "exited"
    /\ remote # <<>>
    /\ ~RemoteFailure
    /\ results = <<>>
    /\ Printed("No results found")

\* the "Result" lines printed, in order
ResultLines == SelectSeq(console, LAMBDA line : line.msg = "Result")

\* C15: query_astra prints one entry per result of the store, in the store's
\* order; the count it reports is the number of results; each preview shown
\* has at most 500 characters; and the truncation notice is printed exactly
\* for the results whose stored text is longer than 500 characters.
C15_ResultsRenderedInStoreOrder ==
    (script = "query" /\ pc \in {"ended", "exited"} /\ outcome = "returned"
        /\ calls = <<"query_astra">>) =>
        /\ Len(ResultLines) = Len(results)
        /\ \A k \in 1..Len(results) :
              /\ ResultLines[k].k = k
              /\ ResultLines[k].id = results[k].id
              /\ Len(ResultLines[k].shown) <= 500
              /\ ResultLines[k].notice <=>
                    (results[k].has_text /\ Len(results[k].vectorize) > 500)
        /\ results # <<>> =>
              \E k \in 1..Len(console) :
                  console[k] = [msg |-> "Found", n |-> Len(results)]
        /\ results = <<>> => ~Printed("Found")

\* two results, one of more than 500 characters and one of at most 500, have
\* been printed
C15_Witness ==
    /\ script = "query"
    /\ pc = "exited"
    /\ Len(results) >= 2
    /\ \E a, b \in 1..Len(results) :
          /\ a < b
          /\ Len(results[a].vectorize) > 500
          /\ Len(results[b].vectorize) <= 500
          /\ ResultLines[a].notice
          /\ ~ResultLines[b].notice

\* the insert_many calls and the delays of the run, in order
LoopSteps == SelectSeq(remote, LAMBDA c : c.op \in {"insert_many", "sleep"})

\* C13: in ingest_pdf_simple.ingest_to_astra every insert_many call is followed
\* by the delay before the next call is made; the k-th call carries the k-th
\* slice of 20 records, so the batches go in ascending order, each once, and
\* no record is submitted twice in a run; and the function returns after
\* exactly ceil(n/20) calls whichever of them raised.
C13_SequentialSingleAttempts ==
    (script = "simple" /\ pc \in {"loop", "ended"} /\ outcome # "raised") =>
        /\ Len(LoopSteps) = 2 * Len(InsertCalls)
        /\ \A k \in 1..Len(LoopSteps) :
              LoopSteps[k].op = IF k % 2 = 1 THEN "insert_many" ELSE "sleep"
        /\ \A k \in 1..Len(InsertCalls) :
              InsertCalls[k].batch =
                  SubSeq(documents, 20 * (k - 1) + 1, Min(20 * k, Len(documents)))
        /\ \A j, k \in 1..Len(InsertCalls) :
              j < k => Ids(InsertCalls[j].batch) \cap Ids(InsertCalls[k].batch) = {}
        /\ Len(InsertCalls) <= (Len(documents) + 19) \div 20
        /\ pc = "ended" => Len(InsertCalls) = (Len(documents) + 19) \div 20

\* a run of three batches, the first of which raised and the last of which
\* was accepted, has returned
C13_Witness ==
    /\ script = "simple"
    /\ pc = "ended"
    /\ outcome = "returned"
    /\ Len(InsertCalls) = 3
    /\ ~InsertCalls[1].ok
    /\ InsertCalls[3].ok

\* C14: the _ids that ingest_pdf_simple.ingest_to_astra submits for a document
\* are none of the _ids an earlier run left in the same collection for a
\* document with a different filename.
C14_DocumentsNeverShareIds ==
    \A r \in 1..Len(history) :
        (script = "simple" /\ history[r].pdf_filename # pdf_filename) =>
            Submitted \cap history[r].store = {}

====
